---- MODULE Spec2Model ----
(***************************************************************************)
(* Model of src/train.py: the entry script (__main__), train_net, save_pt  *)
(* and load_pt.  Floating-point quantities are fixed-point integers:       *)
(* losses are in tenths (One = 1.0), learning-rate factors in 1/10000.     *)
(* The network, the optimizer and a checkpoint are abstract records: the   *)
(* model is its origin plus the number of optimizer updates applied.       *)
(***************************************************************************)
EXTENDS Integers, Sequences, FiniteSets, TLC

\* ---------------------------------------------------------------- bounds
MaxEpochs == 3
MaxLen == 21
DatasetSizes == {0, 1, 5, 9, 10, 11, 20} \cup {MaxLen}
BatchSizes == {8, 16}
Percents == {0, 10, 90, 100}
LossValues == {4, 15}

\* ------------------------------------------------------ program constants
One == 10
BestLossInit == 10000 * One
LfScale == 10000
BaseLr == 1000

VARIABLES pc, args, save_cp, dataset_len, n_val, n_train, train, val,
          taken, batch_len, global_step, epoch, epoch_loss, best_loss,
          lrs, cur_lr, item_loss, model, optimizer, grad, scheduler,
          ckpts, interrupted_pt, dir_exists, created_log, exit_status,
          exception, ops, applied_grad, lr_seen, epoch_losses, validated,
          mkdir_results, decisions, interrupted, raised_at

vars == <<pc, args, save_cp, dataset_len, n_val, n_train, train, val,
          taken, batch_len, global_step, epoch, epoch_loss, best_loss,
          lrs, cur_lr, item_loss, model, optimizer, grad, scheduler,
          ckpts, interrupted_pt, dir_exists, created_log, exit_status,
          exception, ops, applied_grad, lr_seen, epoch_losses, validated,
          mkdir_results, decisions, interrupted, raised_at>>

NoFile == "none"
NoCkpt == [model |-> [weights |-> "none", updates |-> 0],
           optimizer |-> [lr |-> 0, steps |-> 0]]

\* --------------------------------------------------------- pure helpers
Min(a, b) == IF a <= b THEN a ELSE b

Ceil(a, b) == (a + b - 1) \div b

\* the cosine factor lf(x) of the LambdaLR scheduler, rounded to 1/LfScale
LfTable == << <<10000, 500>>,
              <<10000, 5250, 500>>,
              <<10000, 7625, 2875, 500>>,
              <<10000, 8609, 5250, 1891, 500>>,
              <<10000, 9093, 6718, 3782, 1407, 500>>,
              <<10000, 9364, 7625, 5250, 2875, 1136, 500>> >>

lf(x, epochs) == LfTable[epochs][x + 1]

\* LambdaLR: lr = base_lr * lr_lambda(last_epoch)
LambdaLR(base_lr, last_epoch, epochs) == (base_lr * lf(last_epoch, epochs)) \div LfScale

NValCeil(len, percent) == (len * percent + 99) \div 100

\* int(len(dataset) * val_percent), val_percent = args.val / 100.  For the
\* dataset sizes and whole percentages used here the double-precision
\* product truncates to the exact quotient.
NVal(len, percent) == (len * percent) \div 100

NTrain(len, nval) == len - nval

RECURSIVE KSubsets(_, _)
KSubsets(n, k) ==
    IF k = 0 THEN {{}}
    ELSE IF k > n THEN {}
    ELSE KSubsets(n - 1, k) \cup {s \cup {n} : s \in KSubsets(n - 1, k - 1)}

\* random_split(dataset, [n_train, n_val]): the first n_train indices of a
\* random permutation go to train, the remaining n_val to val.
random_split(len, ntrain) ==
    {[train |-> s, val |-> (1..len) \ s] : s \in KSubsets(len, ntrain)}

\* epoch_loss += item_loss if item_loss <= 1 else 1
ClipLoss(l) == IF l <= One THEN l ELSE One

save_pt(m, o) == [model |-> m, optimizer |-> o]

load_pt(f) == [model |-> f.model, optimizer |-> f.optimizer]

\* a checkpoint file left on disk by an earlier run
StoredCkpt == save_pt([weights |-> "trained", updates |-> 5],
                      [lr |-> 500, steps |-> 5])

FreshModel == [weights |-> "init", updates |-> 0]

TrainPcs == {"split", "setup", "for_epoch", "fetch", "forward", "loss",
             "zero_grad", "backward", "step", "test", "validate",
             "sched_step", "mkdir", "compare", "save", "plot"}

\* ------------------------------------------------------------------ Init
Init ==
    /\ pc = "main"
    /\ args \in [epochs : 1..MaxEpochs, batchsize : BatchSizes,
                 val : Percents, load : {NoFile, "ckpt.pt"}]
    /\ save_cp \in BOOLEAN
    /\ dataset_len \in DatasetSizes
    /\ dir_exists \in BOOLEAN
    /\ n_val = 0 /\ n_train = 0 /\ train = {} /\ val = {}
    /\ taken = 0 /\ batch_len = 0 /\ global_step = 0 /\ epoch = 0
    /\ epoch_loss = 0 /\ best_loss = 0 /\ lrs = <<>> /\ cur_lr = 0
    /\ item_loss = 0
    /\ model = NoCkpt.model /\ optimizer = NoCkpt.optimizer
    /\ grad = 0 /\ scheduler = [last_epoch |-> 0]
    /\ ckpts = <<>> /\ interrupted_pt = NoCkpt
    /\ created_log = {} /\ exit_status = -1 /\ exception = "none"
    /\ ops = <<>> /\ applied_grad = 0 /\ lr_seen = <<>>
    /\ epoch_losses = <<>> /\ validated = {}
    /\ mkdir_results = <<>> /\ decisions = 0
    /\ interrupted = FALSE /\ raised_at = "none"


\* variables no training-loop action touches
Env == <<args, save_cp, dataset_len, n_val, n_train, train, val>>

Exit == <<exit_status, exception, interrupted, interrupted_pt, raised_at>>

Dir == <<dir_exists, created_log, mkdir_results, decisions>>

\* ------------------------------------------------- __main__, lines 182-216
\* builds the network and the optimizer; args.load is not read
Main ==
    /\ pc = "main"
    /\ model' = FreshModel
    /\ optimizer' = [lr |-> BaseLr, steps |-> 0]
    /\ pc' = "split"
    /\ UNCHANGED <<Env, Exit, Dir, taken, batch_len, global_step, epoch,
                   epoch_loss, best_loss, lrs, cur_lr, item_loss, grad,
                   scheduler, ckpts, ops, applied_grad, lr_seen,
                   epoch_losses, validated>>

\* ------------------------------------------------ train_net, lines 28-32
Split ==
    /\ pc = "split"
    /\ n_val' = NVal(dataset_len, args.val)
    /\ n_train' = NTrain(dataset_len, n_val')
    /\ \E sp \in random_split(dataset_len, n_train') :
          /\ train' = sp.train
          /\ val' = sp.val
    /\ pc' = "setup"
    /\ UNCHANGED <<args, save_cp, dataset_len, Exit, Dir, taken, batch_len,
                   global_step, epoch, epoch_loss, best_loss, lrs, cur_lr,
                   item_loss, model, optimizer, grad, scheduler, ckpts, ops,
                   applied_grad, lr_seen, epoch_losses, validated>>

\* train_net, lines 33-66: the loaders wrap the two subsets (from here on
\* only their lengths n_train and n_val are read), global_step = 0, the
\* LambdaLR scheduler is built (its constructor sets lr = base * lf(0)),
\* lrs = [] and best_loss = 10000
Setup ==
    /\ pc = "setup"
    /\ train' = {} /\ val' = {}
    /\ global_step' = 0
    /\ scheduler' = [last_epoch |-> 0]
    /\ optimizer' = [optimizer EXCEPT !.lr = LambdaLR(BaseLr, 0, args.epochs)]
    /\ lrs' = <<>>
    /\ best_loss' = BestLossInit
    /\ epoch' = 0
    /\ pc' = "for_epoch"
    /\ UNCHANGED <<args, save_cp, dataset_len, n_val, n_train, Exit, Dir,
                   taken, batch_len, epoch_loss, cur_lr, item_loss, model,
                   grad, ckpts, ops, applied_grad, lr_seen, epoch_losses,
                   validated>>

\* train_net, lines 67-71: loop head of `for epoch in range(epochs)`
ForEpoch ==
    /\ pc = "for_epoch"
    /\ IF epoch < args.epochs
       THEN /\ cur_lr' = optimizer.lr
            /\ epoch_loss' = 0
            /\ taken' = 0
            /\ lr_seen' = Append(lr_seen, {})
            /\ pc' = "fetch"
       ELSE /\ pc' = "plot"
            /\ UNCHANGED <<cur_lr, epoch_loss, taken, lr_seen>>
    /\ UNCHANGED <<Env, Exit, Dir, batch_len, global_step, epoch, best_loss,
                   lrs, item_loss, model, optimizer, grad, scheduler, ckpts,
                   ops, applied_grad, epoch_losses, validated>>

\* train_net, lines 74-83: `for batch in train_loader`; the loader yields
\* batches of batch_size images, the last one possibly shorter
Fetch ==
    /\ pc = "fetch"
    /\ IF taken < n_train
       THEN /\ batch_len' = Min(args.batchsize, n_train - taken)
            /\ taken' = taken + batch_len'
            /\ ops' = <<>>
            /\ pc' = "forward"
       ELSE /\ pc' = "sched_step"
            /\ UNCHANGED <<batch_len, taken, ops>>
    /\ UNCHANGED <<Env, Exit, Dir, global_step, epoch, epoch_loss, best_loss,
                   lrs, cur_lr, item_loss, model, optimizer, grad, scheduler,
                   ckpts, applied_grad, lr_seen, epoch_losses, validated>>

\* train_net, line 86: masks_pred = model(imgs)
Forward ==
    /\ pc = "forward"
    /\ ops' = Append(ops, "forward")
    /\ pc' = "loss"
    /\ UNCHANGED <<Env, Exit, Dir, taken, batch_len, global_step, epoch,
                   epoch_loss, best_loss, lrs, cur_lr, item_loss, model,
                   optimizer, grad, scheduler, ckpts, applied_grad, lr_seen,
                   epoch_losses, validated>>

\* train_net, lines 87-94
Loss ==
    /\ pc = "loss"
    /\ \E l \in LossValues : item_loss' = l
    /\ epoch_loss' = epoch_loss + ClipLoss(item_loss')
    /\ ops' = Append(ops, "loss")
    /\ pc' = "zero_grad"
    /\ UNCHANGED <<Env, Exit, Dir, taken, batch_len, global_step, epoch,
                   best_loss, lrs, cur_lr, model, optimizer, grad, scheduler,
                   ckpts, applied_grad, lr_seen, epoch_losses, validated>>

ZeroGradKeep ==
    /\ pc = "zero_grad"
    /\ grad' = grad
    /\ ops' = Append(ops, "zero_grad")
    /\ pc' = "backward"
    /\ UNCHANGED <<Env, Exit, Dir, taken, batch_len, global_step, epoch,
                   epoch_loss, best_loss, lrs, cur_lr, item_loss, model,
                   optimizer, scheduler, ckpts, applied_grad, lr_seen,
                   epoch_losses, validated>>

\* train_net, line 96: optimizer.zero_grad()
ZeroGrad ==
    /\ pc = "zero_grad"
    /\ grad' = 0
    /\ ops' = Append(ops, "zero_grad")
    /\ pc' = "backward"
    /\ UNCHANGED <<Env, Exit, Dir, taken, batch_len, global_step, epoch,
                   epoch_loss, best_loss, lrs, cur_lr, item_loss, model,
                   optimizer, scheduler, ckpts, applied_grad, lr_seen,
                   epoch_losses, validated>>

\* the gradient of a batch loss (abstract: determined by the loss)
GradOf(l) == l

\* train_net, line 97: loss.backward() adds the batch gradient to .grad
Backward ==
    /\ pc = "backward"
    /\ grad' = grad + GradOf(item_loss)
    /\ ops' = Append(ops, "backward")
    /\ pc' = "step"
    /\ UNCHANGED <<Env, Exit, Dir, taken, batch_len, global_step, epoch,
                   epoch_loss, best_loss, lrs, cur_lr, item_loss, model,
                   optimizer, scheduler, ckpts, applied_grad, lr_seen,
                   epoch_losses, validated>>

\* train_net, line 98: optimizer.step() updates the weights from .grad
\* at the optimizer's current learning rate
Step ==
    /\ pc = "step"
    /\ model' = [model EXCEPT !.updates = @ + 1]
    /\ optimizer' = [optimizer EXCEPT !.steps = @ + 1]
    /\ applied_grad' = grad
    /\ lr_seen' = [lr_seen EXCEPT ![epoch + 1] = @ \cup {optimizer.lr}]
    /\ ops' = Append(ops, "step")
    /\ pc' = "test"
    /\ UNCHANGED <<Env, Exit, Dir, taken, batch_len, global_step, epoch,
                   epoch_loss, best_loss, lrs, cur_lr, item_loss, grad,
                   scheduler, ckpts, epoch_losses, validated>>

TestBeforeIncrement ==
    /\ pc = "test"
    /\ global_step' = global_step + 1
    /\ IF n_train \div 10 = 0
       THEN /\ pc' = "exited"
            /\ exception' = "ZeroDivisionError"
            /\ exit_status' = 1
            /\ raised_at' = pc
       ELSE /\ pc' = IF global_step % (n_train \div 10) = 0
                     THEN "validate" ELSE "fetch"
            /\ UNCHANGED <<exception, exit_status, raised_at>>
    /\ UNCHANGED <<Env, Dir, interrupted, interrupted_pt, taken, batch_len,
                   epoch, epoch_loss, best_loss, lrs, cur_lr, item_loss,
                   model, optimizer, grad, scheduler, ckpts, ops,
                   applied_grad, lr_seen, epoch_losses, validated>>

\* train_net, lines 100-104: global_step += 1, then the cadence test
\* `global_step % (n_train // 10) == 0`; a zero modulus raises
\* ZeroDivisionError, which __main__ does not catch (exit status 1)
Test ==
    /\ pc = "test"
    /\ global_step' = global_step + 1
    /\ IF n_train \div 10 = 0
       THEN /\ pc' = "exited"
            /\ exception' = "ZeroDivisionError"
            /\ exit_status' = 1
            /\ raised_at' = pc
       ELSE /\ pc' = IF global_step' % (n_train \div 10) = 0
                     THEN "validate" ELSE "fetch"
            /\ UNCHANGED <<exception, exit_status, raised_at>>
    /\ UNCHANGED <<Env, Dir, interrupted, interrupted_pt, taken, batch_len,
                   epoch, epoch_loss, best_loss, lrs, cur_lr, item_loss,
                   model, optimizer, grad, scheduler, ckpts, ops,
                   applied_grad, lr_seen, epoch_losses, validated>>

\* train_net, lines 105-116: eval_net on the validation loader and the
\* tensorboard writes; the model is only read
Validate ==
    /\ pc = "validate"
    /\ validated' = validated \cup {[step |-> global_step, model |-> model]}
    /\ pc' = "fetch"
    /\ UNCHANGED <<Env, Exit, Dir, taken, batch_len, global_step, epoch,
                   epoch_loss, best_loss, lrs, cur_lr, item_loss, model,
                   optimizer, grad, scheduler, ckpts, ops, applied_grad,
                   lr_seen, epoch_losses>>

\* end of the body of `for epoch in range(epochs)`
EndEpoch ==
    /\ epoch' = epoch + 1
    /\ epoch_losses' = Append(epoch_losses, epoch_loss)
    /\ pc' = "for_epoch"

SchedStepAppendNew ==
    /\ pc = "sched_step"
    /\ scheduler' = [last_epoch |-> scheduler.last_epoch + 1]
    /\ optimizer' = [optimizer EXCEPT
                       !.lr = LambdaLR(BaseLr, scheduler'.last_epoch, args.epochs)]
    /\ lrs' = Append(lrs, optimizer'.lr)
    /\ lr_seen' = [lr_seen EXCEPT ![epoch + 1] = @ \cup {optimizer.lr}]
    /\ IF save_cp
       THEN pc' = "mkdir" /\ UNCHANGED <<epoch, epoch_losses>>
       ELSE EndEpoch
    /\ UNCHANGED <<Env, Exit, Dir, taken, batch_len, global_step, epoch_loss,
                   best_loss, cur_lr, item_loss, model, grad, ckpts, ops,
                   applied_grad, validated>>

\* train_net, lines 119-122: scheduler.step(), lrs.append(cur_lr) and the
\* `if save_cp` test
SchedStep ==
    /\ pc = "sched_step"
    /\ scheduler' = [last_epoch |-> scheduler.last_epoch + 1]
    /\ optimizer' = [optimizer EXCEPT
                       !.lr = LambdaLR(BaseLr, scheduler'.last_epoch, args.epochs)]
    /\ lrs' = Append(lrs, cur_lr)
    /\ lr_seen' = [lr_seen EXCEPT ![epoch + 1] = @ \cup {optimizer.lr}]
    /\ IF save_cp
       THEN pc' = "mkdir" /\ UNCHANGED <<epoch, epoch_losses>>
       ELSE EndEpoch
    /\ UNCHANGED <<Env, Exit, Dir, taken, batch_len, global_step, epoch_loss,
                   best_loss, cur_lr, item_loss, model, grad, ckpts, ops,
                   applied_grad, validated>>

MkdirLogAlways ==
    /\ pc = "mkdir"
    /\ IF dir_exists
       THEN /\ mkdir_results' = Append(mkdir_results, "OSError")
            /\ UNCHANGED dir_exists
       ELSE /\ dir_exists' = TRUE
            /\ mkdir_results' = Append(mkdir_results, "ok")
    /\ created_log' = created_log \cup {epoch + 1}
    /\ pc' = "compare"
    /\ UNCHANGED <<Env, Exit, decisions, taken, batch_len, global_step,
                   epoch, epoch_loss, best_loss, lrs, cur_lr, item_loss,
                   model, optimizer, grad, scheduler, ckpts, ops,
                   applied_grad, lr_seen, epoch_losses, validated>>

\* train_net, lines 123-127: os.mkdir raises OSError when the directory
\* exists; the except clause swallows it and skips the log line
Mkdir ==
    /\ pc = "mkdir"
    /\ IF dir_exists
       THEN /\ mkdir_results' = Append(mkdir_results, "OSError")
            /\ UNCHANGED <<dir_exists, created_log>>
       ELSE /\ dir_exists' = TRUE
            /\ mkdir_results' = Append(mkdir_results, "ok")
            /\ created_log' = created_log \cup {epoch + 1}
    /\ pc' = "compare"
    /\ UNCHANGED <<Env, Exit, decisions, taken, batch_len, global_step,
                   epoch, epoch_loss, best_loss, lrs, cur_lr, item_loss,
                   model, optimizer, grad, scheduler, ckpts, ops,
                   applied_grad, lr_seen, epoch_losses, validated>>

CompareLE ==
    /\ pc = "compare"
    /\ decisions' = decisions + 1
    /\ IF epoch_loss <= best_loss
       THEN pc' = "save" /\ UNCHANGED <<epoch, epoch_losses>>
       ELSE EndEpoch
    /\ UNCHANGED <<Env, Exit, dir_exists, created_log, mkdir_results, taken,
                   batch_len, global_step, epoch_loss, best_loss, lrs,
                   cur_lr, item_loss, model, optimizer, grad, scheduler,
                   ckpts, ops, applied_grad, lr_seen, validated>>

\* train_net, line 129: if epoch_loss < best_loss
Compare ==
    /\ pc = "compare"
    /\ decisions' = decisions + 1
    /\ IF epoch_loss < best_loss
       THEN pc' = "save" /\ UNCHANGED <<epoch, epoch_losses>>
       ELSE EndEpoch
    /\ UNCHANGED <<Env, Exit, dir_exists, created_log, mkdir_results, taken,
                   batch_len, global_step, epoch_loss, best_loss, lrs,
                   cur_lr, item_loss, model, optimizer, grad, scheduler,
                   ckpts, ops, applied_grad, lr_seen, validated>>

\* train_net, lines 130-132: save_pt to epoch{epoch+1}_{epoch_loss}.pt,
\* then best_loss = epoch_loss
Save ==
    /\ pc = "save"
    /\ ckpts' = Append(ckpts, [epoch |-> epoch + 1, loss |-> epoch_loss,
                               content |-> save_pt(model, optimizer)])
    /\ best_loss' = epoch_loss
    /\ EndEpoch
    /\ UNCHANGED <<Env, Exit, Dir, taken, batch_len, global_step, epoch_loss,
                   lrs, cur_lr, item_loss, model, optimizer, grad, scheduler,
                   ops, applied_grad, lr_seen, validated>>

\* train_net, lines 135-141, and the normal end of the script
Plot ==
    /\ pc = "plot"
    /\ pc' = "exited"
    /\ exit_status' = 0
    /\ UNCHANGED <<Env, Dir, exception, interrupted, interrupted_pt,
                   raised_at, taken,
                   batch_len, global_step, epoch, epoch_loss, best_loss, lrs,
                   cur_lr, item_loss, model, optimizer, grad, scheduler,
                   ckpts, ops, applied_grad, lr_seen, epoch_losses,
                   validated>>

\* a KeyboardInterrupt raised anywhere inside train_net unwinds to the
\* except clause of __main__, line 224
Interrupt ==
    /\ pc \in TrainPcs
    /\ interrupted' = TRUE
    /\ raised_at' = pc
    /\ pc' = "except"
    /\ UNCHANGED <<Env, Dir, exception, exit_status, interrupted_pt, taken,
                   batch_len, global_step, epoch, epoch_loss, best_loss, lrs,
                   cur_lr, item_loss, model, optimizer, grad, scheduler,
                   ckpts, ops, applied_grad, lr_seen, epoch_losses,
                   validated>>

HandlerNoSave ==
    /\ pc = "except"
    /\ interrupted_pt' = interrupted_pt
    /\ exception' = "AttributeError"
    /\ exit_status' = 1
    /\ pc' = "exited"
    /\ UNCHANGED <<Env, Dir, interrupted, raised_at, taken, batch_len,
                   global_step,
                   epoch, epoch_loss, best_loss, lrs, cur_lr, item_loss,
                   model, optimizer, grad, scheduler, ckpts, ops,
                   applied_grad, lr_seen, epoch_losses, validated>>

\* __main__, lines 224-230: save_pt to INTERRUPTED.pt, log, sys.exit(0)
\* raises SystemExit, whose handler calls os.exit(0); the os module has no
\* attribute `exit`, so AttributeError ends the process (exit status 1)
Handler ==
    /\ pc = "except"
    /\ interrupted_pt' = save_pt(model, optimizer)
    /\ exception' = "AttributeError"
    /\ exit_status' = 1
    /\ pc' = "exited"
    /\ UNCHANGED <<Env, Dir, interrupted, raised_at, taken, batch_len,
                   global_step,
                   epoch, epoch_loss, best_loss, lrs, cur_lr, item_loss,
                   model, optimizer, grad, scheduler, ckpts, ops,
                   applied_grad, lr_seen, epoch_losses, validated>>

Next ==
    \/ Main \/ Split \/ Setup \/ ForEpoch \/ Fetch \/ Forward \/ Loss
    \/ ZeroGrad \/ Backward \/ Step \/ Test \/ Validate \/ SchedStep
    \/ Mkdir \/ Compare \/ Save \/ Plot \/ Interrupt \/ Handler

Spec == Init /\ [][Next]_vars

\* ------------------------------------------------------------ properties
RECURSIVE MinLoss(_, _)
\* min(10000, losses[1], ..., losses[n])
MinLoss(losses, n) ==
    IF n = 0 THEN BestLossInit ELSE Min(losses[n], MinLoss(losses, n - 1))

\* the place train_net has reached: pc, or where it was left by an exception
at == IF raised_at # "none" THEN raised_at ELSE pc

InLoop == at \in TrainPcs \ {"split", "setup"} \/ (pc = "exited" /\ exit_status = 0)

BatchOps == <<"forward", "loss", "zero_grad", "backward", "step">>

BatchesPerEpoch == Ceil(n_train, args.batchsize)

\* C1: with save_cp, a checkpoint is saved for an epoch iff its accumulated
\* loss (a sum of batch losses clipped at 1) is strictly below the best so
\* far; best_loss is min(10000, losses of all completed epochs); the saved
\* checkpoints have strictly decreasing losses.
C1_CheckpointIffImproved ==
    (save_cp /\ InLoop) =>
        /\ best_loss = MinLoss(epoch_losses, Len(epoch_losses))
        /\ {ckpts[i].epoch : i \in 1..Len(ckpts)} =
              {e \in 1..Len(epoch_losses) :
                  epoch_losses[e] < MinLoss(epoch_losses, e - 1)}
        /\ \A i \in 1..Len(ckpts) : ckpts[i].loss = epoch_losses[ckpts[i].epoch]
        /\ \A i \in 1..(Len(ckpts) - 1) : ckpts[i + 1].loss < ckpts[i].loss
        /\ epoch_loss <= One * Ceil(taken, args.batchsize)

C1_Witness ==
    /\ pc = "exited" /\ exit_status = 0 /\ save_cp
    /\ Len(ckpts) = 2
    /\ Len(epoch_losses) = 3
    /\ ckpts[2].epoch = 3

\* C2: once a KeyboardInterrupt raised inside train_net has been handled,
\* INTERRUPTED.pt holds the current model and optimizer state.
C2_InterruptSaves ==
    (interrupted /\ pc = "exited") =>
        /\ interrupted_pt = save_pt(model, optimizer)
        /\ interrupted_pt # NoCkpt

C2_Witness ==
    /\ interrupted /\ pc = "exited" /\ ~save_cp
    /\ epoch >= 1
    /\ interrupted_pt.model.updates = global_step
    /\ global_step >= 2

\* C3: when --load names a checkpoint file, the first training step runs
\* from the state stored in that file.
C3_LoadBeforeTraining ==
    (args.load # NoFile /\ pc = "forward" /\ optimizer.steps = 0) =>
        /\ model = load_pt(StoredCkpt).model

\* C4: validation has run exactly at the positive multiples of
\* n_train // 10 among the values global_step has taken; global_step counts
\* the training batches and is k * ceil(n_train / batch_size) after k epochs.
C4_ValidationCadence ==
    /\ {v.step : v \in validated} =
          {g \in 1..(global_step - (IF at = "validate" THEN 1 ELSE 0)) :
              n_train \div 10 > 0 /\ g % (n_train \div 10) = 0}
    /\ global_step = optimizer.steps -
          (IF at = "test" /\ exception # "ZeroDivisionError" THEN 1 ELSE 0)
    /\ (at = "for_epoch" => global_step = epoch * BatchesPerEpoch)
    /\ (at = "fetch" =>
          global_step = epoch * BatchesPerEpoch + Ceil(taken, args.batchsize))

C4_Witness ==
    /\ pc = "exited" /\ exit_status = 0
    /\ n_train \div 10 = 2
    /\ epoch = 3
    /\ global_step = 9
    /\ {v.step : v \in validated} = {2, 4, 6, 8}

\* C5: the scheduler is stepped once per epoch after the epoch's last
\* optimizer step, the learning rate is constant within an epoch, and lrs
\* holds, per completed epoch, the rate that epoch's optimizer steps used.
C5_SchedulerPerEpoch ==
    /\ (pc \in {"fetch", "forward", "loss", "zero_grad", "backward", "step",
                "test", "validate", "sched_step"} =>
          /\ scheduler.last_epoch = epoch
          /\ optimizer.lr = LambdaLR(BaseLr, epoch, args.epochs))
    /\ \A e \in 1..Len(lr_seen) : Cardinality(lr_seen[e]) <= 1
    /\ \A e \in 1..Len(lrs) : lr_seen[e] = {lrs[e]}
    /\ ((pc = "exited" /\ exit_status = 0) =>
          /\ Len(lrs) = args.epochs
          /\ scheduler.last_epoch = args.epochs)

C5_Witness ==
    /\ pc = "exited" /\ exit_status = 0
    /\ args.epochs = 3
    /\ optimizer.steps >= 6
    /\ lrs[1] > lrs[2] /\ lrs[2] > lrs[3]

\* C6: each batch runs forward, loss, zero_grad, backward, step in that
\* order; the optimizer step applies the gradient of that batch alone, once
\* per batch; a validation sees the model after the batch's step.
C6_BatchStepOrder ==
    /\ (pc \in {"test", "validate"} => ops = BatchOps)
    /\ (pc = "test" => applied_grad = GradOf(item_loss))
    /\ (pc = "validate" => model.updates = global_step)
    /\ \A v \in validated : v.model.updates = v.step
    /\ (pc = "fetch" =>
          optimizer.steps = epoch * BatchesPerEpoch + Ceil(taken, args.batchsize))

C6_Witness ==
    /\ pc = "validate"
    /\ global_step >= 2
    /\ applied_grad > 0
    /\ validated # {}

C8_MkdirRetry ==
    save_cp =>
        /\ created_log = {e \in 1..Len(mkdir_results) : mkdir_results[e] = "ok"}
        /\ exception # "OSError"
        /\ decisions <= Len(mkdir_results)
        /\ Len(mkdir_results) <= decisions + 1
        /\ (pc = "compare" => (Len(mkdir_results) = epoch + 1 /\ decisions = epoch))
        /\ (pc = "save" => decisions = epoch + 1)
        /\ (pc \in {"for_epoch", "fetch", "sched_step", "plot"} =>
              (Len(mkdir_results) = epoch /\ decisions = epoch))
        /\ ((pc = "exited" /\ exit_status = 0) => decisions = args.epochs)

C8_Witness ==
    /\ pc = "exited" /\ exit_status = 0 /\ save_cp
    /\ Len(mkdir_results) = 3
    /\ mkdir_results[1] = "ok"
    /\ mkdir_results[2] = "OSError"
    /\ decisions = 3

\* C9: with a non-empty training split the cadence test never divides by
\* zero.
C9_NoZeroModulus ==
    n_train >= 1 => exception # "ZeroDivisionError"

\* C10: after the interrupt handler has run the process has ended with
\* exit status 0 and no further exception.
C10_InterruptExitsCleanly ==
    (interrupted /\ pc = "exited") =>
        /\ exit_status = 0
        /\ exception = "none"

====
